---- MODULE Spec2Model ----
(***************************************************************************)
(* A model of package bark (DaltonSW/bark): a process-wide list of         *)
(* charmbracelet/log sinks, initialised from merged options, and leveled   *)
(* logging entry points that fan out to every sink of the list.            *)
(*                                                                         *)
(* The repository holds two revisions of the one file:                     *)
(*   rev = 1   src/bark.go                                                 *)
(*   rev = 2   src/unnamed/part_000                                        *)
(* The variable rev is chosen in the initial state and never changes; each *)
(* definition that differs between the revisions branches on it.           *)
(***************************************************************************)
EXTENDS Integers, Sequences, FiniteSets, TLC

VARIABLES
    rev,          \* which revision of the file runs
    loggers,      \* var loggers []*log.Logger : a sequence of sink addresses
    sinks,        \* the heap: address -> the state of the *log.Logger there
    opts,         \* the argument of the latest Init call
    mergedOpts,   \* Init's local mergedOpts of the latest Init call
    inits,        \* history: the number of Init calls so far (single-threaded runs
                  \*   count up to InitsCap)
    setting,      \* history: the argument of the latest SetDebugLevel call that
                  \*   ran on a non-empty list since the latest Init ("none" if none)
    requested,    \* history: the argument of the latest SetDebugLevel call of the
                  \*   run, whatever the list held ("none" if none)
    last,         \* the latest call: its name, argument, the lines it wrote on
                  \*   standard error, the runes it read from standard input; in
                  \*   concurrent runs also midInit (another thread was inside Init
                  \*   when the call read the list) and lost (an Init had begun and
                  \*   the call found the list empty)
    pc,           \* "idle", or "scanln" while a ...AndWait call sits in fmt.Scanln
    stdin,        \* runes typed on standard input and not yet read
    stdinEOF,     \* standard input has been closed
    typed,        \* number of runes typed so far
    exited,       \* os.Exit has been called
    exitCode,     \* its argument
    tpc,          \* concurrent runs: each thread's position
    tlocal,       \* concurrent runs: each thread's locals (stdLogger, append's result)
    racy,         \* concurrent runs, history: the list was last written by an Init
                  \*   that overlapped another thread's Init
    dropped       \* concurrent runs, history: after the first Init some log call
                  \*   found the list empty and wrote nothing

vars == <<rev, loggers, sinks, opts, mergedOpts, inits, setting, requested, last,
          pc, stdin, stdinEOF, typed, exited, exitCode, tpc, tlocal, racy, dropped>>

concVars == <<tpc, tlocal, racy, dropped>>

(***************************************************************************)
(* Bounds of the model.                                                    *)
(***************************************************************************)
\* Runes typed on standard input per run.
MaxTyped == 2
\* The Init calls of a run are counted up to this number ("this many or more").
InitsCap == 2
\* Init calls per concurrent run, over both threads.
MaxConcInits == 3

(***************************************************************************)
(* charmbracelet/log severities, as the code names them.                   *)
(***************************************************************************)
DebugLevel == -4
InfoLevel == 0
WarnLevel == 4
ErrorLevel == 8
FatalLevel == 12

Levels == {DebugLevel, InfoLevel, WarnLevel, ErrorLevel, FatalLevel}

(***************************************************************************)
(* Options.                                                                *)
(***************************************************************************)
Fields == {"InfoHex", "WarnHex", "ErrorHex", "DebugHex", "TimeFormat"}

defaultOptions ==
    [InfoHex |-> "#1982c4", WarnHex |-> "#ffca3a", ErrorHex |-> "#ff595e",
     DebugHex |-> "#ca7df9", TimeFormat |-> "01/02 03:04:05PM"]

\* The zero value of BarkOptions: every string empty.
ZeroOptions ==
    [InfoHex |-> "", WarnHex |-> "", ErrorHex |-> "", DebugHex |-> "", TimeFormat |-> ""]

\* Options with every field set by the user.
UserOptions ==
    [InfoHex |-> "#111111", WarnHex |-> "#222222", ErrorHex |-> "#333333",
     DebugHex |-> "#444444", TimeFormat |-> "15:04"]

\* The options a caller passes: none set, exactly one set, or all set.
OptionsSet ==
    {ZeroOptions, UserOptions} \cup {[ZeroOptions EXCEPT ![f] = UserOptions[f]] : f \in Fields}

\* src/bark.go: the fourth if-block tests and assigns InfoHex again, so
\* merge.DebugHex keeps the zero value of the fresh BarkOptions{}.
mergeOpts1(o) ==
    LET m0 == ZeroOptions
        m1 == [m0 EXCEPT !.InfoHex = IF o.InfoHex # "" THEN o.InfoHex
                                     ELSE defaultOptions.InfoHex]
        m2 == [m1 EXCEPT !.WarnHex = IF o.WarnHex # "" THEN o.WarnHex
                                     ELSE defaultOptions.WarnHex]
        m3 == [m2 EXCEPT !.ErrorHex = IF o.ErrorHex # "" THEN o.ErrorHex
                                      ELSE defaultOptions.ErrorHex]
        m4 == [m3 EXCEPT !.InfoHex = IF o.InfoHex # "" THEN o.InfoHex
                                     ELSE defaultOptions.InfoHex]
        m5 == [m4 EXCEPT !.TimeFormat = IF o.TimeFormat # "" THEN o.TimeFormat
                                        ELSE defaultOptions.TimeFormat]
    IN  m5

\* src/unnamed/part_000
mergeOpts2(o) ==
    LET m0 == ZeroOptions
        m1 == [m0 EXCEPT !.InfoHex = IF o.InfoHex # "" THEN o.InfoHex
                                     ELSE defaultOptions.InfoHex]
        m2 == [m1 EXCEPT !.WarnHex = IF o.WarnHex # "" THEN o.WarnHex
                                     ELSE defaultOptions.WarnHex]
        m3 == [m2 EXCEPT !.ErrorHex = IF o.ErrorHex # "" THEN o.ErrorHex
                                      ELSE defaultOptions.ErrorHex]
        m4 == [m3 EXCEPT !.DebugHex = IF o.DebugHex # "" THEN o.DebugHex
                                      ELSE defaultOptions.DebugHex]
        m5 == [m4 EXCEPT !.TimeFormat = IF o.TimeFormat # "" THEN o.TimeFormat
                                        ELSE defaultOptions.TimeFormat]
    IN  m5

mergeOpts(r, o) == IF r = 1 THEN mergeOpts1(o) ELSE mergeOpts2(o)

(***************************************************************************)
(* Sinks: the part of a *log.Logger the facade sets and the part that      *)
(* decides what a log call writes.                                         *)
(***************************************************************************)
Style(text, color) == [text |-> text, padding |-> 1, color |-> color, bold |-> TRUE]

\* log.DefaultStyles(): four-letter labels in the library's colours.
DefaultStyles ==
    (DebugLevel :> [text |-> "DEBU", padding |-> 0, color |-> "63", bold |-> TRUE]) @@
    (InfoLevel :> [text |-> "INFO", padding |-> 0, color |-> "86", bold |-> TRUE]) @@
    (WarnLevel :> [text |-> "WARN", padding |-> 0, color |-> "192", bold |-> TRUE]) @@
    (ErrorLevel :> [text |-> "ERRO", padding |-> 0, color |-> "204", bold |-> TRUE]) @@
    (FatalLevel :> [text |-> "FATA", padding |-> 0, color |-> "134", bold |-> TRUE])

\* log.New(os.Stderr): threshold info, no timestamp, the library's time format.
NewLogger ==
    [level |-> InfoLevel, reportTimestamp |-> FALSE,
     timeFormat |-> "2006/01/02 15:04:05", styles |-> DefaultStyles]

\* The five styles.Levels[...] assignments of Init.
InitStyles(m) ==
    [DefaultStyles EXCEPT
        ![InfoLevel] = Style(" INFO ", m.InfoHex),
        ![WarnLevel] = Style(" WARN ", m.WarnHex),
        ![ErrorLevel] = Style("ERROR ", m.ErrorHex),
        ![FatalLevel] = Style("FATAL ", m.ErrorHex),
        ![DebugLevel] = Style("DEBUG ", m.DebugHex)]

\* Mutant: Init also lowers the new sink's threshold to debug.
StdLoggerDebug(r, m) ==
    [NewLogger EXCEPT !.styles = InitStyles(m), !.level = DebugLevel,
                      !.timeFormat = IF r = 1 THEN @ ELSE m.TimeFormat,
                      !.reportTimestamp = (r # 1)]

\* stdLogger as Init leaves it just before the append.
StdLogger(r, m) ==
    LET styled == [NewLogger EXCEPT !.styles = InitStyles(m)]
    IN  IF r = 1
        THEN styled
        ELSE [styled EXCEPT !.timeFormat = m.TimeFormat, !.reportTimestamp = TRUE]

\* Addresses of sinks.
Live == DOMAIN sinks
Range(s) == {s[i] : i \in 1..Len(s)}

\* Mutant: "off" raises the threshold to warn instead of info.
LevelForWarn(r, v) == IF v THEN DebugLevel ELSE WarnLevel

\* What SetDebugLevel hands to logger.SetLevel.
LevelFor(r, v) ==
    IF r = 1 THEN DebugLevel ELSE IF v THEN DebugLevel ELSE InfoLevel

(***************************************************************************)
(* Messages. A string is a sequence of tokens; "%v" is a verb.             *)
(***************************************************************************)
Msgs == {<<"hello">>}
Formats == {<<"n=", "%v">>}
ValLists == {<<>>, <<"3">>}

RECURSIVE SprintfFrom(_, _)
\* fmt.Sprintf on the rest of a format: a verb takes the next operand, or
\* prints %!v(MISSING) when none is left.
SprintfFrom(f, vals) ==
    IF f = <<>>
    THEN IF vals = <<>> THEN <<>> ELSE <<"%!(EXTRA)">>
    ELSE IF Head(f) = "%v"
         THEN IF vals = <<>>
              THEN <<"%!v(MISSING)">> \o SprintfFrom(Tail(f), vals)
              ELSE <<Head(vals)>> \o SprintfFrom(Tail(f), Tail(vals))
         ELSE <<Head(f)>> \o SprintfFrom(Tail(f), vals)

Sprintf(f, vals) == SprintfFrom(f, vals)

\* The suffix the ...AndWait calls append. The second revision's is the one
\* glyph U+F0311 in parentheses, written here by its code point.
WaitMark(r) == IF r = 1 THEN " (Awaiting Return)" ELSE " (U+F0311)"

\* fmt.Sprintf("%v (...)", s): s followed by the suffix.
WithWaitSuffix(r, s) == s \o <<WaitMark(r)>>

(***************************************************************************)
(* What one sink writes for one call: Logger.Log drops a message below    *)
(* the sink's threshold, and otherwise writes one record on its writer.    *)
(***************************************************************************)
Line(a, level, msg) ==
    [sink |-> a, level |-> level, label |-> sinks[a].styles[level],
     time |-> IF sinks[a].reportTimestamp THEN sinks[a].timeFormat ELSE "",
     msg |-> msg]

Log(a, level, msg) ==
    IF sinks[a].level > level THEN <<>> ELSE <<Line(a, level, msg)>>

RECURSIVE ForEach(_, _, _)
\* for _, logger := range ls { logger.<Level>(msg) }
ForEach(ls, level, msg) ==
    IF ls = <<>> THEN <<>>
    ELSE Log(Head(ls), level, msg) \o ForEach(Tail(ls), level, msg)

\* Mutant: the process exits before the sink has written.
ForEachFatalExitFirst(ls, msg) == <<>>

\* for _, logger := range ls { logger.Fatal(msg) }: the library's Fatal logs
\* and then calls os.Exit(1), so the loop ends in its first iteration.
ForEachFatal(ls, msg) ==
    IF ls = <<>> THEN <<>> ELSE Log(Head(ls), FatalLevel, msg)

Call(op, arg, emitted) ==
    [op |-> op, arg |-> arg, emitted |-> emitted, read |-> <<>>, eof |-> FALSE,
     returned |-> TRUE, midInit |-> FALSE, lost |-> FALSE]

(***************************************************************************)
(* The initial state: the package's variables as the Go runtime leaves     *)
(* them (loggers is nil, a list of length 0), nothing called yet.          *)
(***************************************************************************)
Threads == {1, 2}

NoCall == Call("none", <<>>, <<>>)
NoLocal == [opts |-> ZeroOptions, stdLogger |-> 0, appended |-> <<>>, raced |-> FALSE]

Start ==
    /\ rev \in {1, 2}
    /\ loggers = <<>>
    /\ sinks = <<>>
    /\ opts = ZeroOptions
    /\ mergedOpts = ZeroOptions
    /\ inits = 0
    /\ setting = "none"
    /\ requested = "none"
    /\ last = NoCall
    /\ pc = "idle"
    /\ stdin = <<>>
    /\ stdinEOF = FALSE
    /\ typed = 0
    /\ exited = FALSE
    /\ exitCode = 0
    /\ tpc = [t \in Threads |-> "idle"]
    /\ tlocal = [t \in Threads |-> NoLocal]
    /\ racy = FALSE
    /\ dropped = FALSE

(***************************************************************************)
(* The single-threaded program: one action per exported function. A call   *)
(* starts only when no call is in progress and the process is running.     *)
(***************************************************************************)
Running == ~exited /\ pc = "idle"

inited == inits >= 1

\* The address log.New returns: one that no reachable sink has (the least).
NewAddr(used) ==
    LET free == (1..(Cardinality(used) + 1)) \ used
    IN  CHOOSE a \in free : \A b \in free : a <= b

\* Mutant: Init forgets to reset the list.
KeepList == loggers

\* loggers = make([]*log.Logger, 0)
EmptyList == <<>>

\* Mutant: Init forgets to append the new sink.
DropLogger(ls, a) == ls

\* append(loggers, stdLogger)
AppendLogger(ls, a) == Append(ls, a)

\* The heap cut down to the sinks reachable from the given addresses.
Reachable(heap, keep) == [a \in (DOMAIN heap) \cap keep |-> heap[a]]

BoolName(v) == IF v THEN "true" ELSE "false"

Init(o) ==
    /\ Running
    /\ LET m == mergeOpts(rev, o)
           reset == EmptyList
           a == NewAddr(Live)
           heap == (a :> StdLogger(rev, m)) @@ sinks
           list == AppendLogger(reset, a)
       IN  /\ loggers' = list
           /\ sinks' = Reachable(heap, Range(list))
           /\ opts' = o
           /\ mergedOpts' = m
           /\ last' = Call("Init", o, <<>>)
    /\ inits' = IF inits < InitsCap THEN inits + 1 ELSE inits
    /\ setting' = "none"
    /\ UNCHANGED <<rev, requested, pc, stdin, stdinEOF, typed, exited, exitCode,
                   concVars>>

\* for _, logger := range ls { logger.SetLevel(level) }
SetLevels(heap, ls, level) ==
    [a \in DOMAIN heap |->
        IF a \in Range(ls) THEN [heap[a] EXCEPT !.level = level] ELSE heap[a]]

SetDebugLevel(v) ==
    /\ Running
    /\ sinks' = SetLevels(sinks, loggers, LevelFor(rev, v))
    /\ setting' = IF loggers = <<>> THEN setting ELSE BoolName(v)
    /\ requested' = BoolName(v)
    /\ last' = Call("SetDebugLevel", v, <<>>)
    /\ UNCHANGED <<rev, loggers, opts, mergedOpts, inits, pc, stdin, stdinEOF,
                   typed, exited, exitCode, concVars>>

logFrame == <<rev, loggers, sinks, opts, mergedOpts, inits, setting, requested,
              stdin, stdinEOF, typed, concVars>>

\* A plain leveled call below fatal.
LogPlain(op, level, msg) ==
    /\ Running
    /\ last' = Call(op, msg, ForEach(loggers, level, msg))
    /\ UNCHANGED <<logFrame, pc, exited, exitCode>>

\* A formatted leveled call below fatal: the sink formats with fmt.Sprintf.
LogFormatted(op, level, f, vals) ==
    /\ Running
    /\ rev = 2
    /\ last' = Call(op, <<f, vals>>, ForEach(loggers, level, Sprintf(f, vals)))
    /\ UNCHANGED <<logFrame, pc, exited, exitCode>>

Info == \E msg \in Msgs : LogPlain("Info", InfoLevel, msg)
Infof == \E f \in Formats, vals \in ValLists : LogFormatted("Infof", InfoLevel, f, vals)
Warn == \E msg \in Msgs : LogPlain("Warn", WarnLevel, msg)
Warnf == \E f \in Formats, vals \in ValLists : LogFormatted("Warnf", WarnLevel, f, vals)
Error == \E msg \in Msgs : LogPlain("Error", ErrorLevel, msg)
Errorf == \E f \in Formats, vals \in ValLists : LogFormatted("Errorf", ErrorLevel, f, vals)
Debug == \E msg \in Msgs : LogPlain("Debug", DebugLevel, msg)
Debugf == \E f \in Formats, vals \in ValLists : LogFormatted("Debugf", DebugLevel, f, vals)

\* Mutant: Fatal exits whether or not a sink is held.
FatalExitsAlways(ls) == TRUE

\* Whether the loop over ls reaches a logger.Fatal call, which exits.
FatalExits(ls) == ls # <<>>

FatalCall(op, arg, msg) ==
    /\ Running
    /\ last' = Call(op, arg, ForEachFatal(loggers, msg))
    /\ exited' = FatalExits(loggers)
    /\ exitCode' = IF FatalExits(loggers) THEN 1 ELSE exitCode
    /\ UNCHANGED <<logFrame, pc>>

Fatal == \E msg \in Msgs : FatalCall("Fatal", msg, msg)
Fatalf ==
    /\ rev = 2
    /\ \E f \in Formats, vals \in ValLists : FatalCall("Fatalf", <<f, vals>>, Sprintf(f, vals))

\* The first half of a ...AndWait call: the loop. The call then sits in
\* fmt.Scanln (pc = "scanln") until ScanRune lets it return.
WaitCall(op, arg, msg) ==
    /\ Running
    /\ last' = [Call(op, arg, ForEach(loggers, DebugLevel, msg)) EXCEPT !.returned = FALSE]
    /\ pc' = "scanln"
    /\ UNCHANGED <<logFrame, exited, exitCode>>

DebugAndWait == \E msg \in Msgs : WaitCall("DebugAndWait", msg, WithWaitSuffix(rev, msg))
DebugfAndWait ==
    /\ rev = 2
    /\ \E f \in Formats, vals \in ValLists :
          WaitCall("DebugfAndWait", <<f, vals>>, Sprintf(WithWaitSuffix(rev, f), vals))

(***************************************************************************)
(* fmt.Scanln() with no operands reads standard input rune by rune: it     *)
(* skips spaces and returns at a newline, at the end of input, or at the   *)
(* first rune that is not a space (which it has consumed). It blocks while *)
(* the input is empty and open.                                            *)
(***************************************************************************)
Runes == {"nl", "sp", "ch"}

\* Whether Scanln returns after reading rune r.
ScanlnStops(r) == r # "sp"

ScanRune ==
    /\ ~exited
    /\ pc = "scanln"
    /\ \/ /\ stdin # <<>>
          /\ stdin' = Tail(stdin)
          /\ last' = [last EXCEPT !.read = Append(@, Head(stdin)),
                                  !.returned = ScanlnStops(Head(stdin))]
          /\ pc' = IF ScanlnStops(Head(stdin)) THEN "idle" ELSE "scanln"
       \/ /\ stdin = <<>>
          /\ stdinEOF
          /\ stdin' = stdin
          /\ last' = [last EXCEPT !.eof = TRUE, !.returned = TRUE]
          /\ pc' = "idle"
    /\ UNCHANGED <<rev, loggers, sinks, opts, mergedOpts, inits, setting, requested,
                   stdinEOF, typed, exited, exitCode, concVars>>

\* The environment: a rune arrives on standard input, or the input is closed.
TypeRune ==
    /\ ~exited
    /\ ~stdinEOF
    /\ typed < MaxTyped
    /\ \E r \in Runes : stdin' = Append(stdin, r)
    /\ typed' = typed + 1
    /\ UNCHANGED <<rev, loggers, sinks, opts, mergedOpts, inits, setting, requested,
                   last, pc, stdinEOF, exited, exitCode, concVars>>

CloseStdin ==
    /\ ~exited
    /\ ~stdinEOF
    /\ stdinEOF' = TRUE
    /\ UNCHANGED <<rev, loggers, sinks, opts, mergedOpts, inits, setting, requested,
                   last, pc, stdin, typed, exited, exitCode, concVars>>

Next ==
    \/ \E o \in OptionsSet : Init(o)
    \/ \E v \in BOOLEAN : SetDebugLevel(v)
    \/ Info \/ Infof \/ Warn \/ Warnf \/ Error \/ Errorf
    \/ Debug \/ Debugf \/ Fatal \/ Fatalf
    \/ DebugAndWait \/ DebugfAndWait
    \/ ScanRune \/ TypeRune \/ CloseStdin

Spec == Start /\ [][Next]_vars

(***************************************************************************)
(* Vocabulary of the properties.                                           *)
(***************************************************************************)
PlainLogOps == {"Info", "Warn", "Error", "Debug", "Fatal"}
FormattedLogOps == {"Infof", "Warnf", "Errorf", "Debugf", "Fatalf"}
LeveledOps == PlainLogOps \cup FormattedLogOps
FatalOps == {"Fatal", "Fatalf"}
DebugOps == {"Debug", "Debugf"}
WaitOps == {"DebugAndWait", "DebugfAndWait"}
AboveDebugOps == {"Info", "Infof", "Warn", "Warnf", "Error", "Errorf"}

LevelOf(op) ==
    CASE op \in {"Info", "Infof"} -> InfoLevel
      [] op \in {"Warn", "Warnf"} -> WarnLevel
      [] op \in {"Error", "Errorf"} -> ErrorLevel
      [] op \in FatalOps -> FatalLevel
      [] OTHER -> DebugLevel

\* The merge as section 4.1 of the specification states it.
Effective(o) == [f \in Fields |-> IF o[f] # "" THEN o[f] ELSE defaultOptions[f]]

\* The call wrote one line per sink of the list, in the list's order, at
\* the severity of the function called.
OneLinePerSink ==
    /\ Len(last.emitted) = Len(loggers)
    /\ \A i \in 1..Len(loggers) :
          /\ last.emitted[i].sink = loggers[i]
          /\ last.emitted[i].level = LevelOf(last.op)

\* The text the latest ...AndWait call handed to the sinks.
WaitText ==
    IF last.op = "DebugAndWait"
    THEN last.arg \o <<WaitMark(rev)>>
    ELSE Sprintf(last.arg[1], last.arg[2]) \o <<WaitMark(rev)>>

(***************************************************************************)
(* C1. In both revisions, after Init(opts) each of the five fields of the  *)
(* merged options is the user's value when that is non-empty and the       *)
(* default of the field otherwise.                                         *)
(* Fails in the first revision: merge.DebugHex is never assigned.          *)
(***************************************************************************)
C1_MergePerField ==
    inited => \A f \in Fields : mergedOpts[f] = Effective(opts)[f]

\* The same of the second revision alone, where it holds.
MergePerFieldSecondRevision == rev = 2 => C1_MergePerField

(***************************************************************************)
(* C2. In both revisions, on an initialized facade SetDebugLevel(v) sets   *)
(* every held sink's threshold to debug when v is true and to info when v  *)
(* is false; a Debug call after SetDebugLevel(true) writes, and one after  *)
(* SetDebugLevel(false) writes nothing.                                    *)
(* Fails in the first revision, whose SetDebugLevel ignores v.             *)
(***************************************************************************)
C2_SetDebugLevelFollowsArgument ==
    /\ (inited /\ last.op = "SetDebugLevel") =>
          \A a \in Range(loggers) :
              sinks[a].level = IF last.arg THEN DebugLevel ELSE InfoLevel
    /\ (inited /\ last.op \in DebugOps /\ setting = "true") => OneLinePerSink
    /\ (inited /\ last.op \in DebugOps /\ setting = "false") => last.emitted = <<>>

\* The same of the second revision alone, where it holds.
SetDebugLevelSecondRevision == rev = 2 => C2_SetDebugLevelFollowsArgument

(***************************************************************************)
(* C3. Before the first Init every leveled-log function, Fatal and Fatalf  *)
(* included, writes nothing, returns to its caller with the process still  *)
(* running, and leaves the sink list empty.                                *)
(***************************************************************************)
C3_NoOpBeforeInit ==
    (~inited /\ last.op \in LeveledOps) =>
        /\ last.emitted = <<>>
        /\ last.returned
        /\ ~exited
        /\ loggers = <<>>

C3_Witness == ~inited /\ last.op = "Fatal" /\ requested = "true"

(***************************************************************************)
(* C4. In a single-threaded run the sink list holds exactly one sink once  *)
(* Init has been called, however often, and none before.                   *)
(***************************************************************************)
C4_OneSinkIffInitialized ==
    Len(loggers) = IF inited THEN 1 ELSE 0

C4_Witness == inits >= 2 /\ Len(loggers) = 1 /\ last.op \in AboveDebugOps

C6_OnlyDebugSuppressed ==
    /\ (inited /\ last.op \in AboveDebugOps) => OneLinePerSink
    /\ (inited /\ last.op \in LeveledOps \cup WaitOps
               /\ Len(last.emitted) < Len(loggers)) => last.op \in DebugOps \cup WaitOps

C6_Witness ==
    /\ inited
    /\ setting = "false"
    /\ last.op = "Info"
    /\ Len(last.emitted) = 1

(***************************************************************************)
(* C7. A DebugAndWait or DebugfAndWait call first hands the message with   *)
(* the wait suffix to every sink at debug severity, then reads standard    *)
(* input, and returns only when it has read one line.                      *)
(* Fails: fmt.Scanln with no operands returns at the first rune that is    *)
(* not a space, and at the end of input.                                   *)
(***************************************************************************)
C7_WaitReadsOneLine ==
    last.op \in WaitOps =>
        /\ \A i \in 1..Len(last.emitted) :
              /\ last.emitted[i].level = DebugLevel
              /\ last.emitted[i].msg = WaitText
        /\ ~last.returned => pc = "scanln"
        /\ last.returned =>
              /\ ~last.eof
              /\ last.read # <<>>
              /\ last.read[Len(last.read)] = "nl"

\* What does hold of a ...AndWait call: the sinks get the message first, the
\* call then sits in Scanln, and it returns once Scanln has consumed a run
\* of spaces ended by a newline or by another rune, or has met the end of
\* input.
WaitEmitsThenScans ==
    last.op \in WaitOps =>
        /\ \A i \in 1..Len(last.emitted) :
              /\ last.emitted[i].level = DebugLevel
              /\ last.emitted[i].msg = WaitText
        /\ ~last.returned => pc = "scanln"
        /\ \A i \in 1..(Len(last.read) - 1) : last.read[i] = "sp"
        /\ last.returned =>
              \/ last.eof
              \/ last.read # <<>> /\ last.read[Len(last.read)] # "sp"

(***************************************************************************)
(* C8. In both revisions, after Init(opts) the installed sink reports      *)
(* timestamps, in the format of the merged options.                        *)
(* Fails in the first revision, which sets neither.                        *)
(***************************************************************************)
C8_TimestampEnabled ==
    inited =>
        \A a \in Range(loggers) :
            /\ sinks[a].reportTimestamp
            /\ sinks[a].timeFormat = Effective(opts).TimeFormat

\* The same of the second revision alone, where it holds.
TimestampSecondRevision == rev = 2 => C8_TimestampEnabled

(***************************************************************************)
(* C10. The debug setting does not survive Init: the sink an Init installs *)
(* has threshold info, so until SetDebugLevel is called again on it the    *)
(* debug-level calls write nothing; and SetDebugLevel before the first     *)
(* Init changes nothing.                                                   *)
(***************************************************************************)
C10_DebugSettingLost ==
    /\ last.op = "Init" => \A a \in Range(loggers) : sinks[a].level = InfoLevel
    /\ (inited /\ setting = "none" /\ last.op \in DebugOps \cup WaitOps) =>
          last.emitted = <<>>
    /\ (~inited /\ last.op = "SetDebugLevel") => (loggers = <<>> /\ DOMAIN sinks = {})

C10_Witness ==
    /\ inits >= 2
    /\ requested = "true"
    /\ setting = "none"
    /\ last.op = "Debug"
    /\ last.emitted = <<>>

(***************************************************************************)
(* The concurrent program: two threads call Init, SetDebugLevel, Info and  *)
(* Debug with no lock. Init touches the package variable loggers three     *)
(* times: the assignment of the empty list, the read inside append, and    *)
(* the assignment of append's result; each is one step here, and another   *)
(* thread may run between any two. The other calls read loggers once, at   *)
(* the head of their loop. (A slice assignment is three machine words;     *)
(* steps finer than one read or one write of the variable are not          *)
(* modelled.)                                                              *)
(***************************************************************************)
ConcOptions == {ZeroOptions, UserOptions}

MidInit(t) == tpc[t] # "idle"

\* The addresses thread-local variables of the Init calls in progress hold.
HeldBy(locals) ==
    UNION {{locals[t].stdLogger} \cup Range(locals[t].appended) : t \in Threads}

concFrame == <<rev, pc, stdin, stdinEOF, typed, exited, exitCode>>

\* Init up to and including log.New and the styling of stdLogger.
InitReset(t, o) ==
    /\ tpc[t] = "idle"
    /\ inits < MaxConcInits
    /\ LET m == mergeOpts(rev, o)
           list == EmptyList
           a == NewAddr(Range(list) \cup HeldBy(tlocal))
           overlap == \E u \in Threads \ {t} : MidInit(u)
           locals == [u \in Threads |->
                         IF u = t
                         THEN [opts |-> o, stdLogger |-> a, appended |-> <<>>,
                               raced |-> overlap]
                         ELSE IF MidInit(u) THEN [tlocal[u] EXCEPT !.raced = TRUE]
                         ELSE tlocal[u]]
       IN  /\ loggers' = list
           /\ tlocal' = locals
           /\ sinks' = Reachable((a :> StdLogger(rev, m)) @@ sinks,
                                 Range(list) \cup HeldBy(locals))
           /\ opts' = o
           /\ mergedOpts' = m
    /\ tpc' = [tpc EXCEPT ![t] = "built"]
    /\ inits' = inits + 1
    /\ setting' = "none"
    /\ racy' = FALSE
    /\ UNCHANGED <<concFrame, requested, last, dropped>>

\* append(loggers, stdLogger): the read of loggers.
InitAppendRead(t) ==
    /\ tpc[t] = "built"
    /\ tlocal' = [tlocal EXCEPT ![t].appended = AppendLogger(loggers, tlocal[t].stdLogger)]
    /\ tpc' = [tpc EXCEPT ![t] = "appended"]
    /\ UNCHANGED <<concFrame, loggers, sinks, opts, mergedOpts, inits, setting,
                   requested, last, racy, dropped>>

\* loggers = <the result of append>; Init returns.
InitAppendWrite(t) ==
    /\ tpc[t] = "appended"
    /\ LET locals == [tlocal EXCEPT ![t] = NoLocal]
       IN  /\ loggers' = tlocal[t].appended
           /\ tlocal' = locals
           /\ sinks' = Reachable(sinks, Range(tlocal[t].appended) \cup HeldBy(locals))
    /\ racy' = tlocal[t].raced
    /\ tpc' = [tpc EXCEPT ![t] = "idle"]
    /\ last' = Call("Init", tlocal[t].opts, <<>>)
    /\ UNCHANGED <<concFrame, opts, mergedOpts, inits, setting, requested, dropped>>

ConcSetDebugLevel(t, v) ==
    /\ tpc[t] = "idle"
    /\ sinks' = SetLevels(sinks, loggers, LevelFor(rev, v))
    /\ setting' = IF loggers = <<>> THEN setting ELSE BoolName(v)
    /\ requested' = BoolName(v)
    /\ last' = Call("SetDebugLevel", v, <<>>)
    /\ UNCHANGED <<concFrame, loggers, opts, mergedOpts, inits, tpc, tlocal, racy,
                   dropped>>

ConcLog(t, op, level, msg) ==
    /\ tpc[t] = "idle"
    /\ LET lines == ForEach(loggers, level, msg)
           mid == \E u \in Threads \ {t} : MidInit(u)
           lost == inited /\ loggers = <<>>
       IN  /\ last' = [Call(op, msg, lines) EXCEPT !.midInit = mid, !.lost = lost]
           /\ dropped' = (dropped \/ lost)
    /\ UNCHANGED <<concFrame, loggers, sinks, opts, mergedOpts, inits, setting,
                   requested, tpc, tlocal, racy>>

ConcInfo(t) == \E msg \in Msgs : ConcLog(t, "Info", InfoLevel, msg)
ConcDebug(t) == \E msg \in Msgs : ConcLog(t, "Debug", DebugLevel, msg)

NextConc ==
    \E t \in Threads :
        \/ \E o \in ConcOptions : InitReset(t, o)
        \/ InitAppendRead(t)
        \/ InitAppendWrite(t)
        \/ \E v \in BOOLEAN : ConcSetDebugLevel(t, v)
        \/ ConcInfo(t)
        \/ ConcDebug(t)

SpecConc == Start /\ [][NextConc]_vars

(***************************************************************************)
(* C9. Init is not atomic on the sink list. With two threads the list      *)
(* holds more than one sink only when the Init that wrote it overlapped    *)
(* another Init; a log call made when no Init is in progress then writes   *)
(* one line per sink, twice for two sinks; and after the first Init a log  *)
(* call writes nothing for want of a sink only while another thread is     *)
(* between its reset and its append.                                       *)
(* The witness is the race itself: a run in which a message was dropped,   *)
(* the list ends with two sinks and an Info call writes two lines.         *)
(***************************************************************************)
C9_InitRace ==
    /\ Len(loggers) <= inits
    /\ Len(loggers) >= 2 => racy
    /\ (last.op = "Info" /\ \A t \in Threads : ~MidInit(t)) => OneLinePerSink
    /\ (last.op = "Info" /\ last.emitted = <<>> /\ last.lost) => last.midInit
    /\ (last.op = "Info" /\ last.midInit /\ ~last.lost) => last.emitted # <<>>
    /\ (inited /\ \A t \in Threads : ~MidInit(t)) => loggers # <<>>

C9_Witness ==
    /\ Len(loggers) = 2
    /\ loggers[1] # loggers[2]
    /\ dropped
    /\ last.op = "Info"
    /\ Len(last.emitted) = 2

====
